---- MODULE Spec2Model ----
(***************************************************************************)
(* archiveS3.py: archive a dated snapshot directory in an S3 bucket.       *)
(* A string is a sequence of one-character strings, so that the path       *)
(* arithmetic of os.path is computed character by character.               *)
(***************************************************************************)
EXTENDS Integers, Sequences, FiniteSets, TLC

----------------------------------------------------------------------------
(* Python str and posixpath, as the interpreter computes them.             *)

sep == "/"
curdir == <<".">>
pardir == <<".", ".">>

Max(S) == CHOOSE x \in S : \A y \in S : y <= x

\* s[i:] and s[:i] with Python's 0-based index i
From(s, i) == SubSeq(s, i + 1, Len(s))
UpTo(s, i) == SubSeq(s, 1, i)

\* str.startswith
startswith(s, prefix) ==
    /\ Len(prefix) <= Len(s)
    /\ SubSeq(s, 1, Len(prefix)) = prefix

\* str.endswith
endswith(s, suffix) ==
    /\ Len(suffix) <= Len(s)
    /\ SubSeq(s, Len(s) - Len(suffix) + 1, Len(s)) = suffix

\* str.rstrip(c) for a single character c
RECURSIVE rstrip(_, _)
rstrip(s, c) ==
    IF Len(s) > 0 /\ s[Len(s)] = c THEN rstrip(UpTo(s, Len(s) - 1), c) ELSE s

\* str.rfind(c): the 0-based index of the last c, -1 when there is none
rfind(s, c) ==
    LET I == {i \in 1..Len(s) : s[i] = c}
    IN  IF I = {} THEN -1 ELSE Max(I) - 1

\* str.find(c): the 0-based index of the first c, -1 when there is none
find(s, c) ==
    LET I == {i \in 1..Len(s) : s[i] = c}
    IN  IF I = {} THEN -1 ELSE (CHOOSE x \in I : \A y \in I : x <= y) - 1

\* str.replace(old, new) for single characters
replace(s, old, new) == [i \in 1..Len(s) |-> IF s[i] = old THEN new ELSE s[i]]

\* str.split(c): the list of the pieces between the c's, empty ones kept
RECURSIVE split(_, _)
split(s, c) ==
    LET i == find(s, c)
    IN  IF i = -1 THEN <<s>> ELSE <<UpTo(s, i)>> \o split(From(s, i + 1), c)

\* c.join(list)
RECURSIVE joinstr(_, _)
joinstr(c, list) ==
    IF list = <<>> THEN <<>>
    ELSE IF Len(list) = 1 THEN list[1]
    ELSE list[1] \o <<c>> \o joinstr(c, Tail(list))

\* [x for x in list if x]
RECURSIVE nonempty(_)
nonempty(list) ==
    IF list = <<>> THEN <<>>
    ELSE IF Head(list) = <<>> THEN nonempty(Tail(list))
    ELSE <<Head(list)>> \o nonempty(Tail(list))

\* os.path.isabs
isabs(p) == startswith(p, <<sep>>)

\* os.path.basename
basename(p) == From(p, rfind(p, sep) + 1)

\* os.path.dirname
dirname(p) ==
    LET head == UpTo(p, rfind(p, sep) + 1)
    IN  IF head # <<>> /\ head # [i \in 1..Len(head) |-> sep]
        THEN rstrip(head, sep) ELSE head

\* os.path.join(a, b)
join(a, b) ==
    IF startswith(b, <<sep>>) THEN b
    ELSE IF a = <<>> \/ endswith(a, <<sep>>) THEN a \o b
    ELSE a \o <<sep>> \o b

\* os.path.join(*list) for a non-empty list
RECURSIVE joinall(_)
joinall(list) ==
    IF Len(list) = 1 THEN list[1]
    ELSE joinall(<<join(list[1], list[2])>> \o SubSeq(list, 3, Len(list)))

\* the loop of os.path.normpath over the components
RECURSIVE normcomps(_, _, _)
normcomps(comps, new_comps, initial_slashes) ==
    IF comps = <<>> THEN new_comps
    ELSE LET comp == Head(comps)
             rest == Tail(comps)
         IN  IF comp = <<>> \/ comp = curdir
             THEN normcomps(rest, new_comps, initial_slashes)
             ELSE IF \/ comp # pardir
                     \/ (initial_slashes = 0 /\ new_comps = <<>>)
                     \/ (new_comps # <<>> /\ new_comps[Len(new_comps)] = pardir)
             THEN normcomps(rest, Append(new_comps, comp), initial_slashes)
             ELSE IF new_comps # <<>>
             THEN normcomps(rest, UpTo(new_comps, Len(new_comps) - 1), initial_slashes)
             ELSE normcomps(rest, new_comps, initial_slashes)

\* os.path.normpath
normpath(path) ==
    IF path = <<>> THEN curdir
    ELSE LET initial_slashes ==
                 IF ~startswith(path, <<sep>>) THEN 0
                 ELSE IF startswith(path, <<sep, sep>>) /\ ~startswith(path, <<sep, sep, sep>>)
                 THEN 2 ELSE 1
             comps == normcomps(split(path, sep), <<>>, initial_slashes)
             p == [i \in 1..initial_slashes |-> sep] \o joinstr(sep, comps)
         IN  IF p = <<>> THEN curdir ELSE p

\* os.path.abspath, in the working directory cwd
abspath(path, cwd) == normpath(IF isabs(path) THEN path ELSE join(cwd, path))

\* len(os.path.commonprefix([l1, l2])) of two lists
RECURSIVE commonlen(_, _)
commonlen(l1, l2) ==
    IF l1 = <<>> \/ l2 = <<>> \/ Head(l1) # Head(l2) THEN 0
    ELSE 1 + commonlen(Tail(l1), Tail(l2))

\* os.path.relpath(path, start), in the working directory cwd (path is not empty)
relpath(path, start, cwd) ==
    LET start_list == nonempty(split(abspath(start, cwd), sep))
        path_list == nonempty(split(abspath(path, cwd), sep))
        i == commonlen(start_list, path_list)
        rel_list == [k \in 1..(Len(start_list) - i) |-> pardir] \o From(path_list, i)
    IN  IF rel_list = <<>> THEN curdir ELSE joinall(rel_list)

----------------------------------------------------------------------------
(* Python values and exceptions.                                           *)

\* None, which is no string
None == <<"<None>">>

\* a test `is None` in the place of `not v`
FalsyNoneOnly(v) == v = None

\* bool(v) is False for None and for the empty string
Falsy(v) == v = None \/ v = <<>>

\* the classes derived from Exception that a storage or file call raises
ExceptionClasses == {"FileNotFoundError", "S3UploadFailedError", "ClientError", "OSError"}

\* what s3_client.upload_file raises when it fails
UploadErrors == {"FileNotFoundError", "S3UploadFailedError", "ClientError"}

\* does `except cls` catch an exception of class kind (SystemExit derives from
\* BaseException only)
Catches(cls, kind) ==
    IF cls = "Exception" THEN kind \in ExceptionClasses ELSE kind = cls

----------------------------------------------------------------------------
(* datetime: the day before, and strftime('%Y-%m-%d').                     *)

IsLeap(y) == (y % 4 = 0 /\ y % 100 # 0) \/ y % 400 = 0

DaysInMonth(y, m) ==
    IF m = 2 THEN (IF IsLeap(y) THEN 29 ELSE 28)
    ELSE IF m \in {4, 6, 9, 11} THEN 30 ELSE 31

\* date - timedelta(1)
DayBefore(d) ==
    IF d.day > 1 THEN [d EXCEPT !.day = d.day - 1]
    ELSE IF d.month > 1
    THEN [year |-> d.year, month |-> d.month - 1, day |-> DaysInMonth(d.year, d.month - 1)]
    ELSE [year |-> d.year - 1, month |-> 12, day |-> 31]

Digit(n) == <<"0", "1", "2", "3", "4", "5", "6", "7", "8", "9">>[n + 1]

\* n in decimal, zero-padded to width digits
RECURSIVE Decimal(_, _)
Decimal(n, width) ==
    IF width = 0 THEN <<>> ELSE Decimal(n \div 10, width - 1) \o <<Digit(n % 10)>>

\* d.strftime('%Y-%m-%d')
strftime(d) ==
    Decimal(d.year, 4) \o <<"-">> \o Decimal(d.month, 2) \o <<"-">> \o Decimal(d.day, 2)

----------------------------------------------------------------------------
(* The inputs: environment, clock, file system, storage service.           *)

\* the most files in the directory tree that is uploaded
MaxFiles == 3

\* the most entries in the snapshot root
MaxListing == 2

TIMESHIFT_DIR == <<"/", "m", "e", "d", "i", "a", "/", "s", "e", "q", "c", "e", "n", "t", "e", "r", "/", "e", "b", "d", "2", "7", "e", "9", "2", "-", "e", "0", "f", "e", "-", "4", "7", "d", "2", "-", "a", "a", "7", "1", "-", "9", "5", "c", "2", "7", "8", "c", "f", "1", "7", "a", "f", "/", "t", "i", "m", "e", "s", "h", "i", "f", "t", "/", "s", "n", "a", "p", "s", "h", "o", "t", "s", "-", "d", "a", "i", "l", "y">>

\* the working directory of the process
Cwd == <<"/", "t", "m", "p", "/", "d", "a", "t", "a">>

\* the spellings of the directory /tmp/data/mydir given to upload_directory
DirPaths == {<<"/", "t", "m", "p", "/", "d", "a", "t", "a", "/", "m", "y", "d", "i", "r">>, <<"/", "t", "m", "p", "/", "d", "a", "t", "a", "/", "m", "y", "d", "i", "r", "/">>, <<"m", "y", "d", "i", "r">>, <<"m", "y", "d", "i", "r", "/">>}

\* the files that may be in the tree, each the list of names from the top of
\* the tree down to the file; sub\b.txt is one file name with a backslash in it
Files == {<<<<"a", ".", "t", "x", "t">>>>, <<<<"s", "u", "b">>, <<"b", ".", "t", "x", "t">>>>, <<<<"s", "u", "b", "\\", "b", ".", "t", "x", "t">>>>, <<<<"s", "u", "b">>, <<"c", ".", "t", "x", "t">>>>}

Trees == {t \in SUBSET Files : Cardinality(t) <= MaxFiles}

\* the paths given to upload_file
FilePaths == {<<"/", "t", "m", "p", "/", "d", "a", "t", "a", "/", "t", "e", "s", "t", "f", "i", "l", "e">>, <<"t", "e", "s", "t", "f", "i", "l", "e">>, <<"/", "t", "m", "p", "/", "d", "a", "t", "a", "/", "m", "y", "d", "i", "r", "/", "a", ".", "t", "x", "t">>, <<"m", "y", "d", "i", "r", "/", "s", "u", "b", "/", "b", ".", "t", "x", "t">>}

\* the values an environment variable may have: unset, empty, set
EnvValues == {None, <<>>, <<"x">>}

\* the days on which the program may run
Nows == {[year |-> 2024, month |-> 7, day |-> 4],
         [year |-> 2024, month |-> 7, day |-> 5],
         [year |-> 2024, month |-> 7, day |-> 11],
         [year |-> 2024, month |-> 3, day |-> 1]}

\* the entries the snapshot root may hold: two snapshot directories and a
\* regular file
Entries == {[name |-> <<"2", "0", "2", "4", "-", "0", "7", "-", "0", "3", "-", "f", "o", "o">>, isdir |-> TRUE],
            [name |-> <<"2", "0", "2", "4", "-", "0", "7", "-", "0", "4", "-", "b", "a", "r">>, isdir |-> TRUE],
            [name |-> <<"2", "0", "2", "4", "-", "0", "7", "-", "0", "3", ".", "l", "o", "g">>, isdir |-> FALSE]}

\* the sequences of the elements of S, each once: the orders a directory
\* listing may come in
Orders(S) ==
    {s \in [1..Cardinality(S) -> S] : \A i, j \in 1..Cardinality(S) : i # j => s[i] # s[j]}

\* what os.listdir may return for the snapshot root
Listings ==
    UNION {Orders(S) : S \in {E \in SUBSET Entries : Cardinality(E) <= MaxListing}}

----------------------------------------------------------------------------
(* The state of one run.                                                   *)

VARIABLES
    entry,                  \* what is run: main, or one function called alone
    pc,                     \* where the run is
    env,                    \* AWS_ACCESS_KEY_ID, AWS_SECRET_ACCESS_KEY, AWS_REGION
    tree,                   \* the files below the directory that is archived
    session_created,        \* boto3.Session(...) has been constructed
    client_created,         \* session.client('s3', ...) has been constructed
    list_calls,             \* the calls of s3_client.list_buckets so far
    list_ok,                \* the bucket listing has completed without an error
    yesterday_str,          \* main's yesterday_str
    listing,                \* what os.listdir(TIMESHIFT_DIR) returned
    subdirectory_to_upload, \* main's subdirectory_to_upload
    directory_path,         \* upload_directory's argument
    top_isdir,              \* directory_path names a directory
    stack,                  \* os.walk: the directories still to visit
    root,                   \* os.walk: the directory being visited
    files,                  \* the files of root not yet handled by the loop
    attempts,               \* the calls of s3_client.upload_file so far
    ud_result,              \* what upload_directory returned
    local_file_path,        \* upload_file's argument
    exit_status             \* the exit status of the process, -1 while it runs

vars == <<entry, pc, env, tree, session_created, client_created, list_calls, list_ok,
          yesterday_str, listing, subdirectory_to_upload, directory_path, top_isdir,
          stack, root, files, attempts, ud_result, local_file_path, exit_status>>

\* the variables of main up to the snapshot selection
mainvars == <<session_created, client_created, list_calls, list_ok, yesterday_str,
              listing, subdirectory_to_upload>>

\* the variables of upload_directory
walkvars == <<directory_path, top_isdir, stack, root, files, ud_result>>

Running == -1

\* the state before the first statement, but for entry, env, tree and the arguments
Fresh ==
    /\ session_created = FALSE
    /\ client_created = FALSE
    /\ list_calls = 0
    /\ list_ok = FALSE
    /\ yesterday_str = <<>>
    /\ listing = <<>>
    /\ subdirectory_to_upload = None
    /\ stack = <<>>
    /\ root = <<>>
    /\ files = <<>>
    /\ attempts = <<>>
    /\ ud_result = <<>>
    /\ exit_status = Running

\* python archiveS3.py
InitMain ==
    /\ entry = "main"
    /\ pc = "main_config"
    /\ env \in [{"AWS_ACCESS_KEY_ID", "AWS_SECRET_ACCESS_KEY", "AWS_REGION"} -> EnvValues]
    /\ tree \in Trees
    /\ directory_path = None
    /\ top_isdir = FALSE
    /\ local_file_path = None
    /\ Fresh

\* upload_directory(directory_path, bucket_name, s3_client) called on its own
InitUploadDirectory ==
    /\ entry = "upload_directory"
    /\ pc = "ud_enter"
    /\ env = [k \in {"AWS_ACCESS_KEY_ID", "AWS_SECRET_ACCESS_KEY", "AWS_REGION"} |-> None]
    /\ tree \in Trees
    /\ directory_path \in DirPaths
    /\ top_isdir = TRUE
    /\ local_file_path = None
    /\ Fresh

\* upload_file(local_file_path, bucket_name, s3_client) called on its own
InitUploadFile ==
    /\ entry = "upload_file"
    /\ pc = "uf_enter"
    /\ env = [k \in {"AWS_ACCESS_KEY_ID", "AWS_SECRET_ACCESS_KEY", "AWS_REGION"} |-> None]
    /\ tree = {}
    /\ directory_path = None
    /\ top_isdir = FALSE
    /\ local_file_path \in FilePaths
    /\ Fresh

Init == InitMain \/ InitUploadDirectory \/ InitUploadFile

----------------------------------------------------------------------------
(* main, lines 77-143.                                                     *)

\* sys.exit(1)
Exit1 ==
    /\ pc' = "exited"
    /\ exit_status' = 1

\* lines 83-89: the three values are read and tested
ConfigMissing(e) ==
    \/ Falsy(e["AWS_ACCESS_KEY_ID"])
    \/ Falsy(e["AWS_SECRET_ACCESS_KEY"])
    \/ Falsy(e["AWS_REGION"])

\* lines 81-89
MainConfig ==
    /\ pc = "main_config"
    /\ IF ConfigMissing(env)
       THEN Exit1
       ELSE pc' = "main_session" /\ UNCHANGED exit_status
    /\ UNCHANGED <<entry, env, tree, mainvars, walkvars, attempts, local_file_path>>

\* lines 92-103: the session and the client are constructed; an exception of
\* either constructor is caught at line 101 and ends the run
MainSession ==
    /\ pc = "main_session"
    /\ \E r \in {"ok", "session_raises", "client_raises"} :
        /\ session_created' = (r # "session_raises")
        /\ client_created' = (r = "ok")
        /\ IF r = "ok" THEN pc' = "main_list" /\ UNCHANGED exit_status ELSE Exit1
    /\ UNCHANGED <<entry, env, tree, list_calls, list_ok, yesterday_str, listing,
                   subdirectory_to_upload, walkvars, attempts, local_file_path>>

\* list_buckets with a handler that logs the error and returns
list_buckets_returns(r) == "main_select"

\* list_buckets, lines 17-29: where the run goes after the call, which either
\* returned a response (r = "ok") or raised an exception of class r
list_buckets(r) ==
    IF r = "ok" THEN "main_select"
    ELSE IF Catches("Exception", r) THEN "exited" ELSE "raised"

\* lines 105-110
MainListBuckets ==
    /\ pc = "main_list"
    /\ \E r \in {"ok", "ClientError"} :
        /\ list_calls' = list_calls + 1
        /\ list_ok' = (r = "ok")
        /\ pc' = list_buckets(r)
        /\ exit_status' = IF list_buckets(r) = "exited" THEN 1 ELSE exit_status
    /\ UNCHANGED <<entry, env, tree, session_created, client_created, yesterday_str,
                   listing, subdirectory_to_upload, walkvars, attempts, local_file_path>>

\* lines 130-133: the index of the first entry of l whose name starts with
\* prefix, 0 when there is none
RECURSIVE FirstMatch(_, _, _)
FirstMatch(l, prefix, i) ==
    IF i > Len(l) THEN 0
    ELSE IF startswith(l[i].name, prefix) THEN i
    ELSE FirstMatch(l, prefix, i + 1)

\* lines 119-139: the snapshot of the day before is looked for and, when
\* found, handed to upload_directory
MainSelect ==
    /\ pc = "main_select"
    /\ \E now \in Nows, l \in Listings :
        LET y == strftime(DayBefore(now))
            i == FirstMatch(l, y, 1)
        IN  /\ yesterday_str' = y
            /\ listing' = l
            /\ IF i # 0
               THEN /\ subdirectory_to_upload' = join(TIMESHIFT_DIR, l[i].name)
                    /\ directory_path' = join(TIMESHIFT_DIR, l[i].name)
                    /\ top_isdir' = l[i].isdir
                    /\ pc' = "ud_enter"
                    /\ UNCHANGED exit_status
               ELSE /\ Exit1
                    /\ UNCHANGED <<subdirectory_to_upload, directory_path, top_isdir>>
    /\ UNCHANGED <<entry, env, tree, session_created, client_created, list_calls, list_ok,
                   stack, root, files, ud_result, attempts, local_file_path>>

\* line 130 raises (the snapshot root is missing or unreadable): caught at
\* line 141
MainListdirRaises ==
    /\ pc = "main_select"
    /\ \E now \in Nows : yesterday_str' = strftime(DayBefore(now))
    /\ Exit1
    /\ UNCHANGED <<entry, env, tree, session_created, client_created, list_calls, list_ok,
                   listing, subdirectory_to_upload, walkvars, attempts, local_file_path>>

\* upload_directory has returned to line 136 and main to line 148: the
\* interpreter ends with status 0
MainFinish ==
    /\ pc = "ud_returned"
    /\ entry = "main"
    /\ pc' = "done"
    /\ exit_status' = 0
    /\ UNCHANGED <<entry, env, tree, mainvars, walkvars, attempts, local_file_path>>

----------------------------------------------------------------------------
(* upload_directory, lines 56-75.                                          *)

\* line 64
base_dir(dp) == basename(rstrip(dp, sep))

\* line 68
relative_path(local, dp) == relpath(local, dirname(dp), Cwd)

\* line 69
s3_key(local, dp) == replace(join(base_dir(dp), relative_path(local, dp)), "\\", sep)

\* the names of the regular files in the directory dir of the tree t
FilesIn(t, dir) ==
    {f[Len(f)] : f \in {g \in t : Len(g) = Len(dir) + 1 /\ SubSeq(g, 1, Len(dir)) = dir}}

\* the names of the directories in the directory dir of the tree t
DirsIn(t, dir) ==
    {f[Len(dir) + 1] : f \in {g \in t : Len(g) > Len(dir) + 1 /\ SubSeq(g, 1, Len(dir)) = dir}}

\* lines 64-65: base_dir is computed and os.walk starts at directory_path
UdEnter ==
    /\ pc = "ud_enter"
    /\ stack' = <<[path |-> directory_path, dir |-> <<>>]>>
    /\ root' = <<>>
    /\ files' = <<>>
    /\ pc' = "walk"
    /\ UNCHANGED <<entry, env, tree, mainvars, directory_path, top_isdir, ud_result,
                   attempts, local_file_path, exit_status>>

\* line 65, os.walk top-down: the next directory is scanned, its files are
\* yielded in the order the file system lists them, and its directories are
\* put on the stack, each as os.path.join(top, name); a top that cannot be
\* scanned (it is no directory) yields nothing
WalkNext ==
    /\ pc = "walk"
    /\ files = <<>>
    /\ stack # <<>>
    /\ LET top == Head(stack)
       IN  IF ~top_isdir
           THEN /\ stack' = Tail(stack)
                /\ UNCHANGED <<root, files>>
           ELSE \E fs \in Orders(FilesIn(tree, top.dir)), ds \in Orders(DirsIn(tree, top.dir)) :
                /\ root' = top
                /\ files' = fs
                /\ stack' = [i \in 1..Len(ds) |->
                                [path |-> join(top.path, ds[i]), dir |-> Append(top.dir, ds[i])]]
                            \o Tail(stack)
    /\ UNCHANGED <<entry, pc, env, tree, mainvars, directory_path, top_isdir, ud_result,
                   attempts, local_file_path, exit_status>>

\* line 67
LocalFilePath == join(root.path, Head(files))

\* one call of s3_client.upload_file, with how it ended
Attempt(file, local, key, ok) == [file |-> file, local |-> local, key |-> key, ok |-> ok]

\* lines 67-73: the upload of the next file succeeds
UploadOk ==
    /\ pc = "walk"
    /\ files # <<>>
    /\ attempts' = Append(attempts, Attempt(Append(root.dir, Head(files)), LocalFilePath,
                                            s3_key(LocalFilePath, directory_path), TRUE))
    /\ files' = Tail(files)
    /\ UNCHANGED <<entry, pc, env, tree, mainvars, directory_path, top_isdir, stack, root,
                   ud_result, local_file_path, exit_status>>

\* a handler for the upload error of boto3 alone
BatchHandlerNarrow == "S3UploadFailedError"

\* line 74: the class of exceptions the handler of the loop catches
BatchHandlerClass == "Exception"

\* main, line 141: an exception out of upload_directory ends the run
MainHandlerClass == "Exception"

\* lines 67-75: the upload of the next file raises; the handler logs it and
\* the loop goes on
UploadRaises ==
    /\ pc = "walk"
    /\ files # <<>>
    /\ \E kind \in UploadErrors :
        /\ attempts' = Append(attempts, Attempt(Append(root.dir, Head(files)), LocalFilePath,
                                                s3_key(LocalFilePath, directory_path), FALSE))
        /\ IF Catches(BatchHandlerClass, kind)
           THEN /\ files' = Tail(files)
                /\ UNCHANGED <<pc, exit_status>>
           ELSE IF entry = "main" /\ Catches(MainHandlerClass, kind)
           THEN /\ Exit1
                /\ UNCHANGED files
           ELSE /\ pc' = "raised"
                /\ UNCHANGED <<files, exit_status>>
    /\ UNCHANGED <<entry, env, tree, mainvars, directory_path, top_isdir, stack, root,
                   ud_result, local_file_path>>

\* the walk is exhausted: upload_directory returns None
UdReturn ==
    /\ pc = "walk"
    /\ files = <<>>
    /\ stack = <<>>
    /\ pc' = "ud_returned"
    /\ ud_result' = None
    /\ UNCHANGED <<entry, env, tree, mainvars, directory_path, top_isdir, stack, root, files,
                   attempts, local_file_path, exit_status>>

----------------------------------------------------------------------------
(* upload_file, lines 31-54.                                               *)

\* upload_file without its last handler
upload_file_two_handlers(kind) ==
    IF Catches("FileNotFoundError", kind) THEN "exited"
    ELSE IF Catches("S3UploadFailedError", kind) THEN "exited"
    ELSE "raised"

\* lines 46-54: what the handlers do with an exception of class kind
upload_file_handlers(kind) ==
    IF Catches("FileNotFoundError", kind) THEN "exited"
    ELSE IF Catches("S3UploadFailedError", kind) THEN "exited"
    ELSE IF Catches("Exception", kind) THEN "exited"
    ELSE "raised"

\* lines 40-44: the key is the base name, and the upload succeeds
UploadFileOk ==
    /\ pc = "uf_enter"
    /\ attempts' = Append(attempts, Attempt(<<>>, local_file_path,
                                            basename(local_file_path), TRUE))
    /\ pc' = "uf_returned"
    /\ UNCHANGED <<entry, env, tree, mainvars, walkvars, local_file_path, exit_status>>

\* lines 40-54: the upload raises
UploadFileRaises ==
    /\ pc = "uf_enter"
    /\ \E kind \in UploadErrors :
        /\ attempts' = Append(attempts, Attempt(<<>>, local_file_path,
                                                basename(local_file_path), FALSE))
        /\ pc' = upload_file_handlers(kind)
        /\ exit_status' = IF upload_file_handlers(kind) = "exited" THEN 1 ELSE exit_status
    /\ UNCHANGED <<entry, env, tree, mainvars, walkvars, local_file_path>>

----------------------------------------------------------------------------

Next ==
    \/ MainConfig
    \/ MainSession
    \/ MainListBuckets
    \/ MainSelect
    \/ MainListdirRaises
    \/ MainFinish
    \/ UdEnter
    \/ WalkNext
    \/ UploadOk
    \/ UploadRaises
    \/ UdReturn
    \/ UploadFileOk
    \/ UploadFileRaises

Spec == Init /\ [][Next]_vars

----------------------------------------------------------------------------
(* What the properties below speak of.                                     *)

\* the run is inside main, before the snapshot has been looked for
BeforeSelection == pc \in {"main_config", "main_session", "main_list", "main_select"}

\* the regular files os.walk can find below directory_path
WalkedFiles == IF top_isdir THEN tree ELSE {}

\* the attempts to upload the file f of the tree
AttemptsOf(f) == {i \in 1..Len(attempts) : attempts[i].file = f}

\* some upload of the batch failed
AnyFailed == \E i \in 1..Len(attempts) : ~attempts[i].ok

\* the directory that is uploaded, however directory_path spells it
TreeAbs == abspath(directory_path, Cwd)

\* baseName(T)
TreeBaseName == basename(TreeAbs)

\* a path written with / separators
Slashed(p) == replace(p, "\\", sep)

\* the relative path of the file f below the tree
RelativeToTree(f) == joinstr(sep, f)

\* relativePath(f, parentOf(T)): the path of the file f below the directory
\* that contains the tree
RelativeToParent(f) == joinstr(sep, <<TreeBaseName>> \o f)

\* a child of the snapshot root matches the date of the day before
Matched == \E i \in 1..Len(listing) : startswith(listing[i].name, yesterday_str)

\* the index of the first subdirectory in the listing whose name starts with
\* the date, 0 when there is none
FirstSubdirectory ==
    LET I == {i \in 1..Len(listing) :
                 listing[i].isdir /\ startswith(listing[i].name, yesterday_str)}
    IN  IF I = {} THEN 0 ELSE CHOOSE i \in I : \A j \in I : i <= j

\* a configuration value is absent or empty
AbsentOrEmpty(v) == v = None \/ Len(v) = 0

\* directory_path written the other way: with a trailing / or without one
OtherSpelling(dp) == IF endswith(dp, <<sep>>) THEN rstrip(dp, sep) ELSE dp \o <<sep>>

\* lines 65-67: the local path of the file f when the walk starts at dp
LocalUnder(dp, f) == joinall(<<dp>> \o f)

----------------------------------------------------------------------------
(* The properties.                                                         *)

\* C1: in upload_directory every regular file of the tree has its upload
\* attempted exactly once and the function returns normally, whichever uploads
\* raise: no failed attempt ends the batch, the function never raises, and at
\* its return the attempts are the files of the tree, each once.
C1_EveryFileAttemptedOnce ==
    entry \in {"main", "upload_directory"} =>
        /\ pc # "raised"
        /\ attempts # <<>> => pc # "exited"
        /\ \A f \in WalkedFiles : Cardinality(AttemptsOf(f)) <= 1
        /\ \A i \in 1..Len(attempts) : attempts[i].file \in WalkedFiles
        /\ pc \in {"ud_returned", "done"} =>
              \A f \in WalkedFiles : Cardinality(AttemptsOf(f)) = 1

\* C1 witness: a batch of three files has returned, and the upload of its
\* first file had failed.
C1_Witness ==
    /\ entry = "upload_directory"
    /\ pc = "ud_returned"
    /\ Len(attempts) = 3
    /\ ~attempts[1].ok
    /\ attempts[3].ok

\* C2: a run of main that reached the batch ends with a non-zero status
\* exactly when some upload of the batch failed, and upload_directory hands the
\* failed uploads to main.
C2_ExitStatusTellsFailures ==
    (entry = "main" /\ pc = "done") =>
        /\ (exit_status # 0) <=> AnyFailed
        /\ AnyFailed => ud_result # None

\* C3: for a directory path without a trailing slash whose base name is B,
\* the file at the relative path r is uploaded under the key B/r.
C3_BaseNameOnce ==
    entry # "upload_file" =>
        \A i \in 1..Len(attempts) :
            ~endswith(directory_path, <<sep>>) =>
                attempts[i].key =
                    Slashed(basename(directory_path) \o <<sep>>
                            \o RelativeToTree(attempts[i].file))

\* C4: the key of every file f of the tree T is
\* baseName(T) + "/" + relativePath(f, parentOf(T)), written with / separators.
C4_KeyFromParent ==
    entry # "upload_file" =>
        \A i \in 1..Len(attempts) :
            attempts[i].key =
                Slashed(TreeBaseName \o <<sep>> \o RelativeToParent(attempts[i].file))

\* C5: within one batch no two distinct local files are uploaded under the
\* same key.
C5_KeysUnique ==
    entry # "upload_file" =>
        \A i, j \in 1..Len(attempts) :
            attempts[i].local # attempts[j].local => attempts[i].key # attempts[j].key

\* C6: what main hands to upload_directory is the first subdirectory of the
\* snapshot root, in listing order, whose name starts with the date of the
\* day before; an entry that is no directory is not picked.
C6_FirstSubdirectoryPicked ==
    (entry = "main" /\ ~BeforeSelection /\ list_ok /\ FirstSubdirectory # 0) =>
        directory_path = join(TIMESHIFT_DIR, listing[FirstSubdirectory].name)

\* C7: in a run of main no upload is attempted unless the bucket listing
\* succeeded and a child of the snapshot root matched the date; when the
\* listing fails, or no child matches, the run has ended with status 1 and
\* without an upload attempt.
C7_NoUploadBeforeListingAndMatch ==
    entry = "main" =>
        /\ attempts # <<>> => (list_ok /\ Matched)
        /\ (list_calls > 0 /\ ~list_ok) =>
              (pc = "exited" /\ exit_status = 1 /\ attempts = <<>>)
        /\ (~BeforeSelection /\ list_ok /\ ~Matched) =>
              (pc = "exited" /\ exit_status = 1 /\ attempts = <<>>)

\* C7 witness: the buckets were listed, the snapshot root holds entries, none
\* of them for the day before, and the run has ended.
C7_Witness ==
    /\ entry = "main"
    /\ list_ok
    /\ listing # <<>>
    /\ ~Matched
    /\ pc = "exited"

\* C8: when one of the three configuration values is absent or empty, main
\* ends with status 1 at its first step; no session and no client is
\* constructed, the buckets are not listed and nothing is uploaded.
C8_MissingConfigurationIsFatal ==
    (entry = "main" /\ \E k \in DOMAIN env : AbsentOrEmpty(env[k])) =>
        /\ ~session_created
        /\ ~client_created
        /\ list_calls = 0
        /\ attempts = <<>>
        /\ pc # "main_config" => (pc = "exited" /\ exit_status = 1)

\* C8 witness: the run has ended with the region set to the empty string and
\* the two keys set.
C8_Witness ==
    /\ entry = "main"
    /\ pc = "exited"
    /\ env["AWS_REGION"] = <<>>
    /\ env["AWS_ACCESS_KEY_ID"] # None /\ env["AWS_ACCESS_KEY_ID"] # <<>>
    /\ env["AWS_SECRET_ACCESS_KEY"] # None /\ env["AWS_SECRET_ACCESS_KEY"] # <<>>

\* C9: upload_file returns only after an upload that succeeded; an upload
\* that fails, for whatever reason, ends the process with status 1.
C9_UploadFileAllOrNothing ==
    entry = "upload_file" =>
        /\ pc # "raised"
        /\ pc = "uf_returned" => (Len(attempts) = 1 /\ attempts[1].ok)
        /\ AnyFailed => (pc = "exited" /\ exit_status = 1)

\* C9 witness: the one upload failed and the process has ended.
C9_Witness ==
    /\ entry = "upload_file"
    /\ AnyFailed
    /\ pc = "exited"

\* C10: the key of a file is the same whether directory_path is written with
\* a trailing / or without one.
C10_TrailingSlashIrrelevant ==
    entry # "upload_file" =>
        \A i \in 1..Len(attempts) :
            attempts[i].key =
                s3_key(LocalUnder(OtherSpelling(directory_path), attempts[i].file),
                       OtherSpelling(directory_path))

====
